---- MODULE Spec2Model ----
(***************************************************************************)
(* The dataflow-graph machine that the notebooks Introduction.ipynb and    *)
(* Variable.ipynb drive: graph construction (operation names, name         *)
(* scopes), variable creation and sharing (variable scopes), variable      *)
(* initialization and assignment in a session, and Session.run over the    *)
(* graph the notebook cells build.  The behaviour of each call is the one  *)
(* the notebooks narrate and the one their captured outputs show.          *)
(***************************************************************************)
EXTENDS Naturals, Integers, Sequences, FiniteSets, TLC

VARIABLES
    names_in_use,   \* graph: name -> number of times it was asked for
    op_names,       \* graph: the names of its operations, in creation order
    name_stack,     \* graph: the current name scope prefix ("" at top level)
    scope_saved,    \* the prefixes the enclosing `with tf.name_scope` blocks restore
    var_store,      \* the variables tf.get_variable made, in creation order
    vs_stack,       \* the open variable scopes, the root scope first
    captured,       \* the scope object bound by `with ... as scope` (none: <<>>)
    init_ops,       \* the operations tf.global_variables_initializer() returned
    session,        \* the session: variable name -> value, for the initialized ones
    assign_runs,    \* history: runs of b.assign_add(1) since b was last initialized
    executed,       \* the last Session.run: operation -> times it was executed
    run_order,      \* the last Session.run: the operations in the order they ran
    dataset,        \* the rows the one-shot iterator was made from (none: <<>>)
    iter_pos,       \* the iterator: the number of rows it has handed out
    next_runs,      \* history: runs of next_item since the iterator was made
    loop,           \* the reading loop: "idle", "running" or "done"
    loop_from,      \* history: the rows handed out before the loop started
    printed,        \* the rows the reading loop has printed
    graphs,         \* the graphs: graph -> its operations, in creation order
    default_stack,  \* the default graphs: the global one, then the open as_default blocks
    op_graph,       \* operation -> the graph its .graph attribute names
    sess_graph,     \* session -> the graph its .graph attribute names
    pending,        \* the running initializer: the steps it has still to take
    staged,         \* the running initializer: the value computed for w (none: <<>>)
    collections,    \* the graph's own collections: name -> the objects added, in order
    added,          \* history: the (name, object) pairs of the add_to_collection calls
    cell_pc,        \* the statement of Variable.ipynb that is executed next
    raised,         \* the exception that stopped the notebook's run ("": none)
    result          \* what the last call returned or raised

names_state == <<names_in_use, op_names, name_stack, scope_saved>>
sharing_state == <<var_store, vs_stack, captured>>
session_state == <<init_ops, session, assign_runs>>
iterator_state == <<dataset, iter_pos, next_runs, loop, loop_from, printed>>
binding_state == <<graphs, default_stack, op_graph, sess_graph>>
order_state == <<pending, staged>>
collection_state == <<collections, added>>
cells_state == <<cell_pc, raised>>

\* What the calls of each part leave alone.
not_names == <<sharing_state, session_state, executed, run_order, iterator_state, binding_state, order_state, collection_state, cells_state>>
not_sharing == <<names_state, session_state, executed, run_order, iterator_state, binding_state, order_state, collection_state, cells_state>>
not_session == <<names_state, vs_stack, captured, executed, run_order, iterator_state, binding_state, order_state, collection_state, cells_state>>
not_run == <<names_state, sharing_state, init_ops, assign_runs, iterator_state, binding_state, order_state, collection_state, cells_state>>
not_iterator == <<names_state, sharing_state, session_state, executed, run_order, binding_state, order_state, collection_state, cells_state>>
not_binding == <<names_state, sharing_state, session_state, executed, run_order, iterator_state, order_state, collection_state, cells_state>>
not_order == <<names_state, vs_stack, captured, assign_runs, executed, run_order,
               iterator_state, binding_state, collection_state, cells_state>>
not_collection == <<names_state, sharing_state, session_state, executed, run_order,
                    iterator_state, binding_state, order_state, cells_state>>
not_cells == <<names_state, assign_runs, executed, run_order, iterator_state, binding_state>>

vars == <<names_in_use, op_names, name_stack, scope_saved,
          var_store, vs_stack, captured, init_ops, session, assign_runs,
          executed, run_order, dataset, iter_pos, next_runs, loop, loop_from, printed,
          graphs, default_stack, op_graph, sess_graph, pending, staged, collections,
          added, cell_pc, raised, result>>

(***************************************************************************)
(* Bounds of the model.                                                    *)
(***************************************************************************)
MaxOps == 3
MaxDepth == 2
MaxNames == 5
MaxVarDepth == 1
MaxVars == 4
MaxInitOps == 2
MaxValue == 3
MaxSeed == 1
MaxRows == 3
MaxGraphs == 3
MaxNesting == 1
MaxGraphOps == 2
MaxSessions == 2
MaxAdded == 3

NoResult == [call |-> "none", arg |-> "", status |-> "ok", value |-> ""]

(***************************************************************************)
(* Operation names.                                                        *)
(***************************************************************************)
\* The names the notebook asks for: name="c", and "c_1", the name the
\* uniquifier itself produces.
OpNames == {"c", "c_1"}
\* The name scopes the notebook opens.
ScopeNames == {"outer", "inner"}

\* "%s_%d" % (name, i)
Suffixed(name, i) == name \o "_" \o ToString(i)

\* A mutant: the name scope prefix is dropped.
Prefixed_flat(stack, name) == name

\* The name with the current name scope prefix before it.
Prefixed(stack, name) == IF stack = "" THEN name ELSE stack \o "/" \o name

InUse(used, name) == name \in DOMAIN used

Count(used, name) == IF InUse(used, name) THEN used[name] ELSE 0

Mark(used, name, n) == [k \in DOMAIN used \cup {name} |-> IF k = name THEN n ELSE used[k]]

\* The loop that appends "_1", "_2", and so on until the name is unused.
RECURSIVE FirstUnused(_, _, _)
FirstUnused(used, base, i) ==
    IF InUse(used, Suffixed(base, i))
    THEN FirstUnused(used, base, i + 1)
    ELSE Suffixed(base, i)

\* A mutant: a name that is in use is handed out again as it is.
unique_name_no_suffix(used, full) == full

\* A mutant: the suffix is always "_1".
unique_name_always_1(used, full) ==
    IF InUse(used, full) THEN Suffixed(full, 1) ELSE full

\* The unique name the graph gives to a requested (prefixed) name.
unique_name(used, full) ==
    IF Count(used, full) > 0
    THEN FirstUnused(Mark(used, full, Count(used, full) + 1), full, Count(used, full))
    ELSE full

\* The graph's table of used names after that name was handed out.
mark_used(used, full) ==
    LET n == Count(used, full)
        counted == Mark(used, full, n + 1)
    IN  IF n > 0 THEN Mark(counted, unique_name(used, full), 1) ELSE counted

\* tf.constant(..., name=name): one new operation in the graph.
create_op(name) ==
    /\ Len(op_names) < MaxOps
    /\ Cardinality(DOMAIN names_in_use) < MaxNames
    /\ LET full == Prefixed(name_stack, name)
           new == unique_name(names_in_use, full)
       IN  /\ op_names' = Append(op_names, new)
           /\ names_in_use' = mark_used(names_in_use, full)
           /\ result' = [call |-> "create_op", arg |-> name, status |-> "ok", value |-> new]
    /\ UNCHANGED <<name_stack, scope_saved>>
    /\ UNCHANGED not_names

\* with tf.name_scope(name): entering the block.
name_scope_enter(name) ==
    /\ Len(scope_saved) < MaxDepth
    /\ Cardinality(DOMAIN names_in_use) < MaxNames
    /\ LET full == Prefixed(name_stack, name)
           new == unique_name(names_in_use, full)
       IN  /\ name_stack' = new
           /\ names_in_use' = mark_used(names_in_use, full)
           /\ scope_saved' = Append(scope_saved, name_stack)
           /\ result' = [call |-> "name_scope", arg |-> name, status |-> "ok", value |-> new \o "/"]
    /\ UNCHANGED op_names
    /\ UNCHANGED not_names

\* with tf.name_scope(name): leaving the block.
name_scope_exit ==
    /\ Len(scope_saved) > 0
    /\ name_stack' = scope_saved[Len(scope_saved)]
    /\ scope_saved' = SubSeq(scope_saved, 1, Len(scope_saved) - 1)
    /\ result' = [call |-> "name_scope_exit", arg |-> "", status |-> "ok", value |-> ""]
    /\ UNCHANGED <<names_in_use, op_names>>
    /\ UNCHANGED not_names

(***************************************************************************)
(* Variables and variable scopes.                                          *)
(***************************************************************************)
GLOBAL_VARIABLES == "variables"
TRAINABLE_VARIABLES == "trainable_variables"
LOCAL_VARIABLES == "local_variables"
DefaultCollections == {GLOBAL_VARIABLES, TRAINABLE_VARIABLES}

\* The variable scopes the notebook opens at top level.
ModelScopes == {"model", "model1"}

\* A scope: its full name, whether it reuses, whether it is the object that
\* `as scope` bound, and the number of names in its path.
RootScope == [name |-> "", reuse |-> FALSE, cap |-> FALSE, depth |-> 0]

CurrentScope == vs_stack[Len(vs_stack)]

\* The state the calls of one cell thread through: the store, the current
\* scope, whether a call has raised, and what the get_variable calls returned.
Running(store, scope) == [store |-> store, scope |-> scope, err |-> FALSE, rets |-> <<>>]

FullName(scope, name) == IF scope.name = "" THEN name ELSE scope.name \o "/" \o name

Exists(store, full) == \E i \in 1..Len(store) : store[i].name = full

IndexOf(store, full) == CHOOSE i \in 1..Len(store) : store[i].name = full

\* A mutant: a name that exists is returned whether the scope reuses or not.
get_variable_auto_reuse(st, name, colls) ==
    LET full == FullName(st.scope, name)
    IN  IF st.err THEN st
        ELSE IF Exists(st.store, full)
             THEN [st EXCEPT !.rets = Append(@, IndexOf(st.store, full))]
             ELSE [st EXCEPT !.store = Append(@, [name |-> full, collections |-> colls]),
                             !.rets = Append(@, Len(st.store) + 1)]

\* A mutant: a reusing scope makes a second variable of the same name.
get_variable_always_new(st, name, colls) ==
    LET full == FullName(st.scope, name)
    IN  IF st.err THEN st
        ELSE IF Exists(st.store, full) /\ ~st.scope.reuse
             THEN [st EXCEPT !.err = TRUE]
             ELSE [st EXCEPT !.store = Append(@, [name |-> full, collections |-> colls]),
                             !.rets = Append(@, Len(st.store) + 1)]

\* tf.get_variable(name, ..., collections=colls) in the current scope.
get_variable(st, name, colls) ==
    LET full == FullName(st.scope, name)
    IN  IF st.err THEN st
        ELSE IF Exists(st.store, full)
             THEN IF st.scope.reuse
                  THEN [st EXCEPT !.rets = Append(@, IndexOf(st.store, full))]
                  ELSE [st EXCEPT !.err = TRUE]
             ELSE IF st.scope.reuse
                  THEN [st EXCEPT !.err = TRUE]
                  ELSE [st EXCEPT !.store = Append(@, [name |-> full, collections |-> colls]),
                                  !.rets = Append(@, Len(st.store) + 1)]

\* The scope `with tf.variable_scope(name, reuse=reuse)` opens inside `scope`:
\* the name is appended to the path and reuse is inherited.
SubScope(scope, name, reuse) ==
    [name |-> FullName(scope, name), reuse |-> reuse \/ scope.reuse, cap |-> FALSE,
     depth |-> scope.depth + 1]

\* def conv_relu(input, kernel_shape, bias_shape)
conv_relu(st) ==
    get_variable(get_variable(st, "weights", DefaultCollections), "biases", DefaultCollections)

\* `with tf.variable_scope(name): conv_relu(...)`: the block leaves the scope
\* as it found it, whether it returns or raises.
conv_relu_in(st, name) ==
    [conv_relu([st EXCEPT !.scope = SubScope(st.scope, name, FALSE)]) EXCEPT !.scope = st.scope]

\* def my_image_filter(input_images)
my_image_filter(st) == conv_relu_in(conv_relu_in(st, "conv1"), "conv2")

\* What a cell's calls leave behind: an exception leaves every open `with`
\* block, so the scope is the root scope again.
Finish(call, st) ==
    /\ var_store' = st.store
    /\ vs_stack' = IF st.err THEN <<RootScope>> ELSE vs_stack
    /\ result' = [call |-> call, arg |-> CurrentScope.name,
                  status |-> IF st.err THEN "ValueError" ELSE "ok",
                  value |-> IF st.err THEN <<>> ELSE st.rets]

\* x = conv_relu(...) in the current scope.
call_conv_relu ==
    /\ Len(var_store) <= MaxVars
    /\ Finish("conv_relu", conv_relu(Running(var_store, CurrentScope)))
    /\ UNCHANGED captured
    /\ UNCHANGED not_sharing

\* output = my_image_filter(...) in the current scope.
call_my_image_filter ==
    /\ Len(var_store) <= MaxVars
    /\ Finish("my_image_filter", my_image_filter(Running(var_store, CurrentScope)))
    /\ UNCHANGED captured
    /\ UNCHANGED not_sharing

Uncap(stack) == [i \in 1..Len(stack) |-> [stack[i] EXCEPT !.cap = FALSE]]

\* with tf.variable_scope(name, reuse=reuse) [as scope]: entering the block.
variable_scope_enter(name, reuse, as_scope) ==
    /\ Len(vs_stack) <= MaxVarDepth
    /\ CurrentScope.depth < MaxVarDepth
    /\ LET new == [SubScope(CurrentScope, name, reuse) EXCEPT !.cap = as_scope]
       IN  /\ vs_stack' = Append(IF as_scope THEN Uncap(vs_stack) ELSE vs_stack, new)
           /\ captured' = IF as_scope THEN <<[name |-> new.name, reuse |-> new.reuse, depth |-> new.depth]>>
                          ELSE captured
           /\ result' = [call |-> "variable_scope", arg |-> name, status |-> "ok",
                         value |-> <<>>]
    /\ UNCHANGED var_store
    /\ UNCHANGED not_sharing

\* with tf.variable_scope(scope, reuse=True): entering the block; the scope
\* opened has the captured scope's name, wherever it is opened.
variable_scope_enter_captured ==
    /\ Len(vs_stack) <= MaxVarDepth
    /\ captured # <<>>
    /\ vs_stack' = Append(vs_stack, [name |-> captured[1].name, reuse |-> TRUE, cap |-> FALSE,
                                    depth |-> captured[1].depth])
    /\ result' = [call |-> "variable_scope", arg |-> captured[1].name, status |-> "ok",
                  value |-> <<>>]
    /\ UNCHANGED <<var_store, captured>>
    /\ UNCHANGED not_sharing

\* scope.reuse_variables(): the captured scope object reuses from now on.
reuse_variables ==
    /\ captured # <<>>
    /\ captured' = <<[captured[1] EXCEPT !.reuse = TRUE]>>
    /\ vs_stack' = [i \in 1..Len(vs_stack) |->
                      IF vs_stack[i].cap THEN [vs_stack[i] EXCEPT !.reuse = TRUE]
                      ELSE vs_stack[i]]
    /\ result' = [call |-> "reuse_variables", arg |-> captured[1].name, status |-> "ok",
                  value |-> <<>>]
    /\ UNCHANGED var_store
    /\ UNCHANGED not_sharing

\* Leaving a `with tf.variable_scope` block.
variable_scope_exit ==
    /\ Len(vs_stack) > 1
    /\ vs_stack' = SubSeq(vs_stack, 1, Len(vs_stack) - 1)
    /\ result' = [call |-> "variable_scope_exit", arg |-> "", status |-> "ok", value |-> <<>>]
    /\ UNCHANGED <<var_store, captured>>
    /\ UNCHANGED not_sharing


(***************************************************************************)
(* Initializing and assigning variables in a session.                      *)
(***************************************************************************)
\* A tensor value: its shape and its elements in row-major order.
Scalar(x) == [shape |-> <<>>, data |-> <<x>>]

\* The variables of the notebook's cells and the collections each is put in:
\* collections=[LOCAL_VARIABLES], trainable=False, and the default.
VarDecls == {"my_local", "my_non_trainable", "b"}

CollectionsOf(name) ==
    CASE name = "my_local" -> {LOCAL_VARIABLES}
      [] name = "my_non_trainable" -> {GLOBAL_VARIABLES}
      [] OTHER -> DefaultCollections

\* The value a variable's initializer gives it (shape=(), zeros_initializer).
InitialValue(name) == Scalar(0)

Initialized(sess, name) == name \in DOMAIN sess

\* Running initializers: each named variable gets its initial value.
Assign(sess, names) ==
    [n \in DOMAIN sess \cup names |-> IF n \in names THEN InitialValue(n) ELSE sess[n]]

\* tf.get_variable(name, shape=(), ...) at top level.
create_variable(name) ==
    /\ Len(var_store) < MaxVars
    /\ LET st == get_variable(Running(var_store, CurrentScope), name, CollectionsOf(name))
       IN  /\ var_store' = st.store
           /\ result' = [call |-> "get_variable", arg |-> name,
                         status |-> IF st.err THEN "ValueError" ELSE "ok",
                         value |-> IF st.err THEN <<>> ELSE st.rets]
    /\ UNCHANGED session_state
    /\ UNCHANGED not_session

\* A mutant: the initializer is built from the trainable variables.
initializer_vars_trainable(store) ==
    {store[i].name : i \in {j \in 1..Len(store) : TRAINABLE_VARIABLES \in store[j].collections}}

\* The variables a new initializer operation is built from: those in the
\* GLOBAL_VARIABLES collection at that time.
initializer_vars(store) ==
    {store[i].name : i \in {j \in 1..Len(store) : GLOBAL_VARIABLES \in store[j].collections}}

\* tf.global_variables_initializer(): one new operation; `made_after` is the
\* number of variables that existed when it was made.
global_variables_initializer ==
    /\ Len(init_ops) < MaxInitOps
    /\ init_ops' = Append(init_ops, [vars |-> initializer_vars(var_store),
                                     made_after |-> Len(var_store)])
    /\ result' = [call |-> "global_variables_initializer", arg |-> "", status |-> "ok",
                  value |-> Len(init_ops) + 1]
    /\ UNCHANGED <<var_store, session, assign_runs>>
    /\ UNCHANGED not_session

\* A mutant: running an initializer looks the variables up when it runs.
init_targets_current(op, store) == initializer_vars(store)

\* The variables an initializer operation initializes when it runs.
init_targets(op, store) == op.vars

\* session.run(init) for an initializer operation made earlier.
run_init(i) ==
    /\ i \in 1..Len(init_ops)
    /\ LET targets == init_targets(init_ops[i], var_store)
       IN  /\ session' = Assign(session, targets)
           /\ assign_runs' = IF "b" \in targets THEN 0 ELSE assign_runs
    /\ result' = [call |-> "run_init", arg |-> i, status |-> "ok", value |-> <<>>]
    /\ UNCHANGED <<var_store, init_ops>>
    /\ UNCHANGED not_session

\* session.run(v.initializer) for one variable.
run_initializer(v) ==
    /\ v \in 1..Len(var_store)
    /\ session' = Assign(session, {var_store[v].name})
    /\ assign_runs' = IF var_store[v].name = "b" THEN 0 ELSE assign_runs
    /\ result' = [call |-> "run_initializer", arg |-> v, status |-> "ok", value |-> <<>>]
    /\ UNCHANGED <<var_store, init_ops>>
    /\ UNCHANGED not_session

\* A mutant: the sum is returned and not stored.
assign_add_not_stored(sess, name, delta) == sess

\* The session after `name.assign_add(delta)` ran.
assign_add(sess, name, delta) ==
    [sess EXCEPT ![name] = Scalar(@.data[1] + delta)]

\* session.run(assignment), assignment = b.assign_add(1); the run returns the
\* variable's value after the addition.
run_assign_add ==
    /\ Exists(var_store, "b")
    /\ IF Initialized(session, "b")
       THEN /\ session["b"].data[1] < MaxValue
            /\ session' = assign_add(session, "b", 1)
            /\ assign_runs' = assign_runs + 1
            /\ result' = [call |-> "run_assign_add", arg |-> "b", status |-> "ok",
                          value |-> session'["b"]]
       ELSE /\ result' = [call |-> "run_assign_add", arg |-> "b",
                          status |-> "FailedPreconditionError", value |-> <<>>]
            /\ UNCHANGED <<session, assign_runs>>
    /\ UNCHANGED <<var_store, init_ops>>
    /\ UNCHANGED not_session

\* The names tf.report_uninitialized_variables() reports: the global and the
\* local variables the session holds no value for, in creation order.
RECURSIVE Uninitialized(_, _)
Uninitialized(store, sess) ==
    IF store = <<>> THEN <<>>
    ELSE LET v == store[1]
             rest == Uninitialized(Tail(store), sess)
         IN  IF /\ v.collections \cap {GLOBAL_VARIABLES, LOCAL_VARIABLES} # {}
                /\ ~Initialized(sess, v.name)
             THEN <<v.name>> \o rest
             ELSE rest

\* session.run(tf.report_uninitialized_variables())
run_report_uninitialized ==
    /\ result' = [call |-> "run_report_uninitialized", arg |-> "", status |-> "ok",
                  value |-> Uninitialized(var_store, session)]
    /\ UNCHANGED <<var_store, session_state>>
    /\ UNCHANGED not_session

(***************************************************************************)
(* Session.run over the graph the notebook cells build.                    *)
(***************************************************************************)
Tensor(shape, data) == [shape |-> shape, data |-> data]

\* The softmax of a tensor, kept as the tensor it is the softmax of.
Softmax(t) == [shape |-> t.shape, logits |-> t.data]

Op(type, inputs, control, var, shape, k) ==
    [type |-> type, inputs |-> inputs, control |-> control, var |-> var,
     shape |-> shape, k |-> k]

\* The operations of the cells: vec, out1, out2; x, w, y, output, init_op;
\* the placeholder x and its square; the variable c, its initializer, its
\* assign_add and the read made under tf.control_dependencies([assignment]).
Graph ==
    [vec        |-> Op("random_uniform", <<>>, {}, "", <<3>>, 0),
     out1       |-> Op("add", <<"vec">>, {}, "", <<3>>, 1),
     out2       |-> Op("add", <<"vec">>, {}, "", <<3>>, 2),
     x_const    |-> Op("const", <<>>, {}, "", <<2, 2>>, 0),
     w_init     |-> Op("random_uniform", <<>>, {}, "", <<2, 2>>, 0),
     w          |-> Op("read", <<>>, {}, "w", <<2, 2>>, 0),
     init_op    |-> Op("assign", <<"w_init">>, {}, "w", <<2, 2>>, 0),
     y          |-> Op("matmul", <<"x_const", "w">>, {}, "", <<2, 2>>, 0),
     output     |-> Op("softmax", <<"y">>, {}, "", <<2, 2>>, 0),
     x          |-> Op("placeholder", <<>>, {}, "", <<3>>, 0),
     y_sq       |-> Op("square", <<"x">>, {}, "", <<3>>, 0),
     c          |-> Op("read", <<>>, {}, "c", <<>>, 0),
     c_init     |-> Op("assign_zeros", <<>>, {}, "c", <<>>, 0),
     assignment |-> Op("assign_add", <<>>, {}, "c", <<>>, 1),
     w_read     |-> Op("read", <<>>, {"assignment"}, "c", <<>>, 0)]

Nodes == DOMAIN Graph

\* x = tf.constant([[37.0, -23.0], [1.0, 4.0]])
XConst == Tensor(<<2, 2>>, <<37, -23, 1, 4>>)

\* The fetch arguments of the run calls: one operation, or the pairs the
\* cells fetch together.
FetchLists ==
    {<<n>> : n \in Nodes}
    \cup {<<"out1", "out2">>, <<"y", "output">>, <<"c", "assignment">>}

\* The feed arguments of the run calls: none, the two vectors and the scalar
\* the cell feeds x, and a value for the tensor vec.
FeedDicts ==
    {<<>>,
     [x |-> Tensor(<<3>>, <<1, 2, 3>>)],
     [x |-> Tensor(<<3>>, <<0, 0, 5>>)],
     [x |-> Tensor(<<>>, <<37>>)],
     [vec |-> Tensor(<<3>>, <<1, 1, 1>>)]}

Range(seq) == {seq[i] : i \in 1..Len(seq)}

Size(shape) == IF shape = <<>> THEN 1 ELSE IF Len(shape) = 1 THEN shape[1] ELSE shape[1] * shape[2]

\* The tensor a random operation yields from the generator's state.
RandomTensor(shape, rng) ==
    Tensor(shape, [i \in 1..Size(shape) |-> (rng + i - 1) % (MaxSeed + 1)])

\* A mutant: control inputs are not followed.
Deps_data_only(n) == Range(Graph[n].inputs)

\* The operations that must have run before n runs.
Deps(n) == Range(Graph[n].inputs) \cup Graph[n].control

\* Backtracking from the fetches: the operations to execute; a fed tensor is
\* not computed, and nothing is executed on its behalf.
RECURSIVE Backtrack(_, _, _)
Backtrack(frontier, seen, fed) ==
    IF frontier = {} THEN seen
    ELSE LET new == ((UNION {Deps(n) : n \in frontier}) \ seen) \ fed
         IN  Backtrack(new, seen \cup new, fed)

Needed(fetches, feed) ==
    Backtrack(Range(fetches) \ DOMAIN feed, Range(fetches) \ DOMAIN feed, DOMAIN feed)

\* A mutant: the executor waits for data inputs only.
RECURSIVE Orders_data_only(_, _)
Orders_data_only(todo, fed) ==
    IF todo = {} THEN {<<>>}
    ELSE UNION {{<<n>> \o o : o \in Orders_data_only(todo \ {n}, fed)} :
                n \in {m \in todo : (Range(Graph[m].inputs) \ fed) \cap todo = {}}}

\* The orders in which the executor may run the needed operations: every
\* order in which an operation runs after the ones it waits for.
RECURSIVE Orders(_, _)
Orders(todo, fed) ==
    IF todo = {} THEN {<<>>}
    ELSE UNION {{<<n>> \o o : o \in Orders(todo \ {n}, fed)} :
                n \in {m \in todo : (Deps(m) \ fed) \cap todo = {}}}

\* A mutant: any shape may be fed.
feed_compatible_unchecked(feed) == TRUE

\* The check of the feed values against the shapes of the tensors they are
\* fed for, made before anything runs.
feed_compatible(feed) == \A n \in DOMAIN feed : feed[n].shape = Graph[n].shape

\* The state of one run: the session, the values computed so far, how often
\* each operation ran, the random generator, and the error raised ("": none).
Env(sess, feed, rng) ==
    [sess |-> sess, vals |-> feed, count |-> [n \in Nodes |-> 0], rng |-> rng,
     steps |-> 0, err |-> ""]

\* A mutant: a random input is drawn again by each operation that uses it.
value_of_redrawn(env, n) ==
    IF Graph[n].type = "random_uniform" /\ n \in DOMAIN env.count /\ env.count[n] > 0
    THEN RandomTensor(Graph[n].shape, env.rng + env.steps)
    ELSE env.vals[n]

\* The value an operation reads from its input: the one computed in this run.
value_of(env, n) == env.vals[n]

Yield(env, n, t) ==
    [env EXCEPT !.vals = [m \in DOMAIN env.vals \cup {n} |-> IF m = n THEN t ELSE env.vals[m]],
                !.count[n] = @ + 1,
                !.steps = @ + 1]

Raise(env, n, error) == [env EXCEPT !.err = error, !.count[n] = @ + 1, !.steps = @ + 1]

Store(env, var, t) ==
    [env EXCEPT !.sess = [v \in DOMAIN env.sess \cup {var} |-> IF v = var THEN t ELSE env.sess[v]]]

\* vec + k: k added to every element.
Add(t, k) == Tensor(t.shape, [i \in 1..Len(t.data) |-> t.data[i] + k])

\* tf.square(x): every element times itself.
Square(t) == Tensor(t.shape, [i \in 1..Len(t.data) |-> t.data[i] * t.data[i]])

\* tf.matmul of two 2x2 tensors.
MatMul(a, b) ==
    Tensor(<<2, 2>>,
           <<a.data[1] * b.data[1] + a.data[2] * b.data[3],
             a.data[1] * b.data[2] + a.data[2] * b.data[4],
             a.data[3] * b.data[1] + a.data[4] * b.data[3],
             a.data[3] * b.data[2] + a.data[4] * b.data[4]>>)

\* A mutant: a placeholder that is not fed yields zeros.
unfed_placeholder_zeros(env, n) ==
    Yield(env, n, Tensor(Graph[n].shape, [i \in 1..Size(Graph[n].shape) |-> 0]))

\* A placeholder that runs was not fed.
unfed_placeholder(env, n) == Raise(env, n, "InvalidArgumentError")

\* One operation runs.
ExecNode(env, n) ==
    LET op == Graph[n]
        in1 == value_of(env, op.inputs[1])
    IN  CASE op.type = "const" -> Yield(env, n, XConst)
          [] op.type = "random_uniform" ->
                [Yield(env, n, RandomTensor(op.shape, env.rng)) EXCEPT !.rng = @ + 1]
          [] op.type = "add" -> Yield(env, n, Add(in1, op.k))
          [] op.type = "square" -> Yield(env, n, Square(in1))
          [] op.type = "matmul" -> Yield(env, n, MatMul(in1, value_of(env, op.inputs[2])))
          [] op.type = "softmax" -> Yield(env, n, Softmax(in1))
          [] op.type = "placeholder" -> unfed_placeholder(env, n)
          [] op.type = "read" ->
                IF Initialized(env.sess, op.var)
                THEN Yield(env, n, env.sess[op.var])
                ELSE Raise(env, n, "FailedPreconditionError")
          [] op.type = "assign" -> Yield(Store(env, op.var, in1), n, in1)
          [] op.type = "assign_zeros" -> Yield(Store(env, op.var, Scalar(0)), n, Scalar(0))
          [] op.type = "assign_add" ->
                IF Initialized(env.sess, op.var)
                THEN LET after == assign_add(env.sess, op.var, op.k)
                     IN  Yield([env EXCEPT !.sess = after], n, after[op.var])
                ELSE Raise(env, n, "FailedPreconditionError")

\* The operations run one after the other in the order given; the run stops
\* at the first that raises.
RECURSIVE Execute(_, _)
Execute(order, env) ==
    IF order = <<>> \/ env.err # "" THEN env
    ELSE Execute(Tail(order), ExecNode(env, Head(order)))

\* The states the random generator may be in when a run starts (one state
\* when the run draws nothing).
Seeds(needed) ==
    IF \E n \in needed : Graph[n].type = "random_uniform" THEN 0..MaxSeed ELSE {0}

\* sess.run(fetches, feed): the feed is checked, the needed operations are
\* executed, and the values of the fetches are returned.
run(fetches, feed) ==
    IF ~feed_compatible(feed)
    THEN /\ result' = [call |-> "run", arg |-> [fetches |-> fetches, feed |-> feed],
                       status |-> "ValueError", value |-> <<>>]
         /\ executed' = [n \in Nodes |-> 0]
         /\ run_order' = <<>>
         /\ UNCHANGED session
         /\ UNCHANGED not_run
    ELSE \E rng \in Seeds(Needed(fetches, feed)),
            order \in Orders(Needed(fetches, feed), DOMAIN feed) :
            LET env == Execute(order, Env(session, feed, rng))
            IN  /\ \A v \in DOMAIN env.sess : env.sess[v].shape = <<>> => env.sess[v].data[1] <= MaxValue
                /\ session' = env.sess
                /\ executed' = env.count
                /\ run_order' = SubSeq(order, 1, env.steps)
                /\ result' = [call |-> "run", arg |-> [fetches |-> fetches, feed |-> feed],
                              status |-> IF env.err = "" THEN "ok" ELSE env.err,
                              value |-> IF env.err = "" THEN [i \in 1..Len(fetches) |-> env.vals[fetches[i]]]
                                        ELSE <<>>]
                /\ UNCHANGED not_run

(***************************************************************************)
(* Datasets: a one-shot iterator and the loop that reads it to its end.    *)
(***************************************************************************)
\* Row i of my_data: [0, 1], [2, 3], [4, 5], [6, 7].
Row(i) == <<2 * (i - 1), 2 * i - 1>>

MyDataRows == 4

my_data == [i \in 1..MyDataRows |-> Row(i)]

\* The arrays an iterator is made from: my_data, and every array of up to
\* MaxRows rows, each of them one of the first two rows of my_data.
Datasets == {my_data} \cup UNION {[1..n -> {Row(1), Row(2)}] : n \in 1..MaxRows}

\* A mutant: the end of the data is signalled one row early.
get_next_one_short(data, pos) ==
    IF pos + 1 < Len(data)
    THEN [status |-> "ok", value |-> data[pos + 1], pos |-> pos + 1]
    ELSE [status |-> "OutOfRangeError", value |-> <<>>, pos |-> pos]

\* One run of next_item on an iterator that has handed out pos rows: the
\* next row, or the out-of-range signal when there is none.
get_next(data, pos) ==
    IF pos < Len(data)
    THEN [status |-> "ok", value |-> data[pos + 1], pos |-> pos + 1]
    ELSE [status |-> "OutOfRangeError", value |-> <<>>, pos |-> pos]

\* slices = tf.data.Dataset.from_tensor_slices(data)
\* next_item = slices.make_one_shot_iterator().get_next()
make_one_shot_iterator(data) ==
    /\ loop # "running"
    /\ dataset' = data
    /\ iter_pos' = 0
    /\ next_runs' = 0
    /\ loop' = "idle"
    /\ loop_from' = 0
    /\ printed' = <<>>
    /\ result' = [call |-> "make_one_shot_iterator", arg |-> data, status |-> "ok",
                  value |-> <<>>]
    /\ UNCHANGED not_iterator

\* sess.run(next_item) in a cell of its own.
run_next_item ==
    /\ dataset # <<>>
    /\ loop # "running"
    /\ next_runs <= Len(dataset) + 1
    /\ LET r == get_next(dataset, iter_pos)
       IN  /\ iter_pos' = r.pos
           /\ result' = [call |-> "next_item", arg |-> "", status |-> r.status,
                         value |-> r.value]
    /\ next_runs' = next_runs + 1
    /\ UNCHANGED <<dataset, loop, loop_from, printed>>
    /\ UNCHANGED not_iterator

\* while True: the cell with the reading loop starts.
loop_start ==
    /\ dataset # <<>>
    /\ loop # "running"
    /\ next_runs <= Len(dataset) + 1
    /\ loop' = "running"
    /\ loop_from' = iter_pos
    /\ printed' = <<>>
    /\ result' = [call |-> "while", arg |-> "", status |-> "ok", value |-> <<>>]
    /\ UNCHANGED <<dataset, iter_pos, next_runs>>
    /\ UNCHANGED not_iterator

\* One turn of the loop: try: print(sess.run(next_item))
\*                       except tf.errors.OutOfRangeError: break
loop_step ==
    /\ loop = "running"
    /\ LET r == get_next(dataset, iter_pos)
       IN  /\ iter_pos' = r.pos
           /\ printed' = IF r.status = "ok" THEN Append(printed, r.value) ELSE printed
           /\ loop' = IF r.status = "ok" THEN "running" ELSE "done"
           /\ result' = [call |-> "next_item", arg |-> "", status |-> r.status,
                         value |-> r.value]
    /\ next_runs' = next_runs + 1
    /\ UNCHANGED <<dataset, loop_from>>
    /\ UNCHANGED not_iterator

(***************************************************************************)
(* Several graphs: tf.Graph(), Graph.as_default, tf.Session(graph=...).    *)
(***************************************************************************)
\* A mutant: the default graph is always the global one.
get_default_graph_global(stack) == stack[1]

\* tf.get_default_graph(): the graph of the innermost open as_default block,
\* the global default graph when none is open.
get_default_graph(stack) == stack[Len(stack)]

\* g = tf.Graph()
new_graph ==
    /\ Len(graphs) < MaxGraphs
    /\ graphs' = Append(graphs, <<>>)
    /\ result' = [call |-> "Graph", arg |-> 0, status |-> "ok", value |-> Len(graphs) + 1]
    /\ UNCHANGED <<default_stack, op_graph, sess_graph>>
    /\ UNCHANGED not_binding

\* with g.as_default(): entering the block.
as_default_enter(g) ==
    /\ g \in 1..Len(graphs)
    /\ Len(default_stack) <= MaxNesting
    /\ default_stack' = Append(default_stack, g)
    /\ result' = [call |-> "as_default", arg |-> g, status |-> "ok", value |-> g]
    /\ UNCHANGED <<graphs, op_graph, sess_graph>>
    /\ UNCHANGED not_binding

\* with g.as_default(): leaving the block.
as_default_exit ==
    /\ Len(default_stack) > 1
    /\ default_stack' = SubSeq(default_stack, 1, Len(default_stack) - 1)
    /\ result' = [call |-> "as_default_exit", arg |-> 0, status |-> "ok", value |-> 0]
    /\ UNCHANGED <<graphs, op_graph, sess_graph>>
    /\ UNCHANGED not_binding

\* c = tf.constant("Node in ..."): one new operation, added to the default graph.
graph_constant ==
    /\ Len(op_graph) < MaxGraphOps
    /\ LET g == get_default_graph(default_stack)
           new == Len(op_graph) + 1
       IN  /\ op_graph' = Append(op_graph, g)
           /\ graphs' = [graphs EXCEPT ![g] = Append(@, new)]
           /\ result' = [call |-> "constant", arg |-> 0, status |-> "ok", value |-> new]
    /\ UNCHANGED <<default_stack, sess_graph>>
    /\ UNCHANGED not_binding

\* sess = tf.Session(): bound to the current default graph.
new_session ==
    /\ Len(sess_graph) < MaxSessions
    /\ sess_graph' = Append(sess_graph, get_default_graph(default_stack))
    /\ result' = [call |-> "Session", arg |-> 0, status |-> "ok",
                  value |-> Len(sess_graph) + 1]
    /\ UNCHANGED <<graphs, default_stack, op_graph>>
    /\ UNCHANGED not_binding

\* sess = tf.Session(graph=g): bound to g.
new_session_graph(g) ==
    /\ g \in 1..Len(graphs)
    /\ Len(sess_graph) < MaxSessions
    /\ sess_graph' = Append(sess_graph, g)
    /\ result' = [call |-> "Session", arg |-> g, status |-> "ok",
                  value |-> Len(sess_graph) + 1]
    /\ UNCHANGED <<graphs, default_stack, op_graph>>
    /\ UNCHANGED not_binding

(***************************************************************************)
(* The order of initialization: u, and w whose initial value is built from *)
(* u.initialized_value() + 1.                                              *)
(***************************************************************************)
\* A mutant: the variable itself is read, as `u + 1` would.
initialized_value_plain_read(sess, name) ==
    IF Initialized(sess, name)
    THEN [status |-> "ok", value |-> sess[name]]
    ELSE [status |-> "FailedPreconditionError", value |-> <<>>]

\* name.initialized_value(): the variable's value when it is initialized,
\* its initial value when it is not.
initialized_value(sess, name) ==
    [status |-> "ok",
     value |-> IF Initialized(sess, name) THEN sess[name] ELSE InitialValue(name)]

\* u = tf.get_variable("u", shape=(), initializer=tf.zeros_initializer())
create_u ==
    /\ pending = {}
    /\ ~Exists(var_store, "u")
    /\ LET st == get_variable(Running(var_store, CurrentScope), "u", DefaultCollections)
       IN  /\ var_store' = st.store
           /\ result' = [call |-> "get_variable", arg |-> "u", status |-> "ok",
                         value |-> st.rets]
    /\ UNCHANGED <<init_ops, session, order_state>>
    /\ UNCHANGED not_order

\* w = tf.get_variable("w", initializer=u.initialized_value() + 1)
create_w ==
    /\ pending = {}
    /\ Exists(var_store, "u")
    /\ ~Exists(var_store, "w")
    /\ LET st == get_variable(Running(var_store, CurrentScope), "w", DefaultCollections)
       IN  /\ var_store' = st.store
           /\ result' = [call |-> "get_variable", arg |-> "w", status |-> "ok",
                         value |-> st.rets]
    /\ UNCHANGED <<init_ops, session, order_state>>
    /\ UNCHANGED not_order

\* init = tf.global_variables_initializer()
make_initializer ==
    /\ pending = {}
    /\ Len(init_ops) < MaxInitOps
    /\ init_ops' = Append(init_ops, [vars |-> initializer_vars(var_store),
                                     made_after |-> Len(var_store)])
    /\ result' = [call |-> "global_variables_initializer", arg |-> "", status |-> "ok",
                  value |-> Len(init_ops) + 1]
    /\ UNCHANGED <<var_store, session, order_state>>
    /\ UNCHANGED not_order

\* The steps an initializer takes for its variables: the assignment of each
\* variable's initial value, and for w the computation of that value first.
StepsOf(targets) ==
    {<<"init", n>> : n \in targets}
    \cup (IF "w" \in targets THEN {<<"value", "w">>} ELSE {})

\* A run of initializers begins: nothing fixes the order of its steps.
start_run(targets) ==
    /\ pending = {}
    /\ pending' = StepsOf(targets)
    /\ staged' = <<>>
    /\ result' = [call |-> "run_init", arg |-> targets,
                  status |-> IF StepsOf(targets) = {} THEN "ok" ELSE "running",
                  value |-> <<>>]
    /\ UNCHANGED <<var_store, init_ops, session>>
    /\ UNCHANGED not_order

\* session.run(init), init made by tf.global_variables_initializer().
start_run_init(i) ==
    /\ i \in 1..Len(init_ops)
    /\ start_run(init_targets(init_ops[i], var_store))

\* session.run(v.initializer) for one variable.
start_run_initializer(v) ==
    /\ v \in 1..Len(var_store)
    /\ start_run({var_store[v].name})

\* A step may be taken when the steps whose output it uses were taken.
Ready(step, todo) == step = <<"init", "w">> => <<"value", "w">> \notin todo

\* One step of a running initializer, taken in session sess with the steps
\* todo left and stg computed for w: what is left, computed and stored after
\* it, and the error the step raised ("ok": none).
TakeStep(sess, todo, stg, step) ==
    LET read == initialized_value(sess, "u")
        failed == step[1] = "value" /\ read.status # "ok"
        left == IF failed THEN {} ELSE todo \ {step}
    IN  [pending |-> left,
         staged |-> IF step[1] = "value" /\ ~failed THEN <<Add(read.value, 1)>>
                    ELSE IF left = {} THEN <<>> ELSE stg,
         session |-> IF step[1] = "value" THEN sess
                     ELSE IF step[2] = "w"
                          THEN [n \in DOMAIN sess \cup {"w"} |->
                                   IF n = "w" THEN stg[1] ELSE sess[n]]
                          ELSE Assign(sess, {step[2]}),
         status |-> IF failed THEN read.status ELSE "ok"]

\* The running initializer takes one of its steps; a step that raises ends
\* the run.
init_step(step) ==
    /\ step \in pending
    /\ Ready(step, pending)
    /\ LET t == TakeStep(session, pending, staged, step)
       IN  /\ pending' = t.pending
           /\ staged' = t.staged
           /\ session' = t.session
           /\ result' = [result EXCEPT !.status = IF t.status # "ok" THEN t.status
                                                   ELSE IF t.pending = {} THEN "ok"
                                                   ELSE "running"]
    /\ UNCHANGED <<var_store, init_ops>>
    /\ UNCHANGED not_order

(***************************************************************************)
(* Collections of the user's own.                                          *)
(***************************************************************************)
\* The names the cells use for collections of their own.
CollectionNames == {"my_collection_name", "my_other_collection"}

\* A mutant: an object is added only to a collection that exists.
collection_add_existing_only(colls, name, obj) ==
    IF name \in DOMAIN colls THEN [colls EXCEPT ![name] = Append(@, obj)] ELSE colls

\* The collections after obj was added to the one called name: a name not
\* used before gets a list of its own.
collection_add(colls, name, obj) ==
    [n \in DOMAIN colls \cup {name} |->
        IF n = name
        THEN IF name \in DOMAIN colls THEN Append(colls[name], obj) ELSE <<obj>>
        ELSE colls[n]]

\* The list of the objects in the collection called name; empty for a name
\* never used.
collection_get(colls, name) == IF name \in DOMAIN colls THEN colls[name] ELSE <<>>

\* tf.add_to_collection(name, v) for a variable v made before.
add_to_collection(name, v) ==
    /\ v \in 1..Len(var_store)
    /\ Len(added) < MaxAdded
    /\ collections' = collection_add(collections, name, var_store[v].name)
    /\ added' = Append(added, <<name, var_store[v].name>>)
    /\ result' = [call |-> "add_to_collection", arg |-> name, status |-> "ok",
                  value |-> <<>>]
    /\ UNCHANGED not_collection

\* tf.get_collection(name)
get_collection(name) ==
    /\ result' = [call |-> "get_collection", arg |-> name, status |-> "ok",
                  value |-> collection_get(collections, name)]
    /\ UNCHANGED collection_state
    /\ UNCHANGED not_collection

(***************************************************************************)
(* The code cells of Variable.ipynb, executed once each in document order. *)
(***************************************************************************)
Statement(op, name) == [op |-> op, name |-> name, reuse |-> FALSE, as_scope |-> FALSE]

\* with tf.variable_scope(name, reuse=reuse) [as scope]; name "": the scope
\* object bound by the last `as scope`.
VariableScope(name, reuse, as_scope) ==
    [op |-> "variable_scope", name |-> name, reuse |-> reuse, as_scope |-> as_scope]

\* The statements of the code cells that make, use or initialize variables,
\* in document order.  (The two cells between get_collection and
\* session = tf.Session() are string literals and call nothing; the def
\* cells only define conv_relu and my_image_filter.)
Cells ==
    <<Statement("get_variable", "my_variable"),
      Statement("get_variable", "my_int_variable"),
      Statement("get_variable", "other_variable"),
      Statement("get_variable", "my_local"),
      Statement("get_variable", "my_non_trainable"),
      Statement("add_to_collection", "my_local"),
      Statement("get_collection", "my_collection_name"),
      Statement("run_init", ""),
      Statement("run_initializer", "my_variable"),
      Statement("report_uninitialized", ""),
      Statement("get_variable", "u"),
      Statement("get_variable", "w"),
      Statement("get_variable", "v"),
      Statement("get_variable", "b"),
      Statement("run_init", ""),
      Statement("run_assign_add", "b"),
      Statement("get_variable", "c"),
      Statement("conv_relu", ""),
      VariableScope("model", FALSE, FALSE),
      Statement("my_image_filter", ""),
      Statement("scope_exit", ""),
      VariableScope("model", TRUE, FALSE),
      Statement("my_image_filter", ""),
      Statement("scope_exit", ""),
      VariableScope("model1", FALSE, TRUE),
      Statement("my_image_filter", ""),
      Statement("reuse_variables", ""),
      Statement("my_image_filter", ""),
      Statement("scope_exit", ""),
      VariableScope("model", FALSE, TRUE),
      Statement("my_image_filter", ""),
      Statement("scope_exit", ""),
      VariableScope("", TRUE, FALSE),
      Statement("my_image_filter", ""),
      Statement("scope_exit", "")>>

\* The statement to execute is of kind op: nothing has raised, and no
\* session.run is under way.
AtCell(op) ==
    /\ raised = ""
    /\ pending = {}
    /\ cell_pc \in 1..Len(Cells)
    /\ Cells[cell_pc].op = op

\* The next statement is executed unless this one raised: an exception
\* stops the run of the notebook.
Advance(error) ==
    /\ raised' = error
    /\ cell_pc' = IF error = "" THEN cell_pc + 1 ELSE cell_pc

\* name = tf.get_variable(name, ...)
cell_get_variable ==
    /\ AtCell("get_variable")
    /\ LET name == Cells[cell_pc].name
           st == get_variable(Running(var_store, CurrentScope), name, CollectionsOf(name))
       IN  /\ var_store' = st.store
           /\ result' = [call |-> "get_variable", arg |-> name,
                         status |-> IF st.err THEN "ValueError" ELSE "ok",
                         value |-> IF st.err THEN <<>> ELSE st.rets]
           /\ Advance(IF st.err THEN "ValueError" ELSE "")
    /\ UNCHANGED <<vs_stack, captured, session, init_ops, order_state, collection_state>>
    /\ UNCHANGED not_cells

\* tf.add_to_collection("my_collection_name", my_local)
cell_add_to_collection ==
    /\ AtCell("add_to_collection")
    /\ collections' = collection_add(collections, "my_collection_name", Cells[cell_pc].name)
    /\ added' = Append(added, <<"my_collection_name", Cells[cell_pc].name>>)
    /\ result' = [call |-> "add_to_collection", arg |-> "my_collection_name",
                  status |-> "ok", value |-> <<>>]
    /\ Advance("")
    /\ UNCHANGED <<sharing_state, session, init_ops, order_state>>
    /\ UNCHANGED not_cells

\* tf.get_collection("my_collection_name")
cell_get_collection ==
    /\ AtCell("get_collection")
    /\ result' = [call |-> "get_collection", arg |-> Cells[cell_pc].name, status |-> "ok",
                  value |-> collection_get(collections, Cells[cell_pc].name)]
    /\ Advance("")
    /\ UNCHANGED <<sharing_state, session, init_ops, order_state, collection_state>>
    /\ UNCHANGED not_cells

\* session.run(tf.global_variables_initializer()): the run begins.
cell_run_init ==
    /\ AtCell("run_init")
    /\ LET targets == initializer_vars(var_store)
       IN  /\ init_ops' = Append(init_ops, [vars |-> targets, made_after |-> Len(var_store)])
           /\ pending' = StepsOf(targets)
           /\ staged' = <<>>
           /\ result' = [call |-> "run_init", arg |-> targets,
                         status |-> IF targets = {} THEN "ok" ELSE "running",
                         value |-> <<>>]
           /\ raised' = ""
           /\ cell_pc' = IF targets = {} THEN cell_pc + 1 ELSE cell_pc
    /\ UNCHANGED <<sharing_state, session, collection_state>>
    /\ UNCHANGED not_cells

\* session.run(my_variable.initializer): the run begins.
cell_run_initializer ==
    /\ AtCell("run_initializer")
    /\ pending' = StepsOf({Cells[cell_pc].name})
    /\ staged' = <<>>
    /\ result' = [call |-> "run_init", arg |-> {Cells[cell_pc].name}, status |-> "running",
                  value |-> <<>>]
    /\ UNCHANGED <<sharing_state, session, init_ops, collection_state, cells_state>>
    /\ UNCHANGED not_cells

\* The run of initializers under way takes one of its steps; the statement
\* is done when none is left.
cell_init_step(step) ==
    /\ raised = ""
    /\ cell_pc \in 1..Len(Cells)
    /\ step \in pending
    /\ Ready(step, pending)
    /\ LET t == TakeStep(session, pending, staged, step)
       IN  /\ pending' = t.pending
           /\ staged' = t.staged
           /\ session' = t.session
           /\ result' = [result EXCEPT !.status = IF t.status # "ok" THEN t.status
                                                   ELSE IF t.pending = {} THEN "ok"
                                                   ELSE "running"]
           /\ raised' = IF t.status # "ok" THEN t.status ELSE ""
           /\ cell_pc' = IF t.status = "ok" /\ t.pending = {} THEN cell_pc + 1 ELSE cell_pc
    /\ UNCHANGED <<sharing_state, init_ops, collection_state>>
    /\ UNCHANGED not_cells

\* print(session.run(tf.report_uninitialized_variables()))
cell_report_uninitialized ==
    /\ AtCell("report_uninitialized")
    /\ result' = [call |-> "run_report_uninitialized", arg |-> "", status |-> "ok",
                  value |-> Uninitialized(var_store, session)]
    /\ Advance("")
    /\ UNCHANGED <<sharing_state, session, init_ops, order_state, collection_state>>
    /\ UNCHANGED not_cells

\* assignment = b.assign_add(1); session.run(assignment)
cell_run_assign_add ==
    /\ AtCell("run_assign_add")
    /\ LET name == Cells[cell_pc].name
       IN  IF Initialized(session, name)
           THEN /\ session' = assign_add(session, name, 1)
                /\ result' = [call |-> "run_assign_add", arg |-> name, status |-> "ok",
                              value |-> session'[name]]
                /\ Advance("")
           ELSE /\ session' = session
                /\ result' = [call |-> "run_assign_add", arg |-> name,
                              status |-> "FailedPreconditionError", value |-> <<>>]
                /\ Advance("FailedPreconditionError")
    /\ UNCHANGED <<sharing_state, init_ops, order_state, collection_state>>
    /\ UNCHANGED not_cells

\* x = conv_relu(input1, ...) at top level.
cell_conv_relu ==
    /\ AtCell("conv_relu")
    /\ LET st == conv_relu(Running(var_store, CurrentScope))
       IN  /\ Finish("conv_relu", st)
           /\ Advance(IF st.err THEN "ValueError" ELSE "")
    /\ UNCHANGED <<captured, session, init_ops, order_state, collection_state>>
    /\ UNCHANGED not_cells

\* output = my_image_filter(input) in the scope that is open.
cell_my_image_filter ==
    /\ AtCell("my_image_filter")
    /\ LET st == my_image_filter(Running(var_store, CurrentScope))
       IN  /\ Finish("my_image_filter", st)
           /\ Advance(IF st.err THEN "ValueError" ELSE "")
    /\ UNCHANGED <<captured, session, init_ops, order_state, collection_state>>
    /\ UNCHANGED not_cells

\* with tf.variable_scope(name_or_scope, reuse=reuse) [as scope]: entering
\* the block, by name or by the scope object bound before.
cell_variable_scope ==
    /\ AtCell("variable_scope")
    /\ LET s == Cells[cell_pc]
           new == IF s.name = ""
                  THEN [name |-> captured[1].name, reuse |-> TRUE, cap |-> FALSE,
                        depth |-> captured[1].depth]
                  ELSE [SubScope(CurrentScope, s.name, s.reuse) EXCEPT !.cap = s.as_scope]
       IN  /\ s.name = "" => captured # <<>>
           /\ vs_stack' = Append(IF s.as_scope THEN Uncap(vs_stack) ELSE vs_stack, new)
           /\ captured' = IF s.as_scope
                          THEN <<[name |-> new.name, reuse |-> new.reuse, depth |-> new.depth]>>
                          ELSE captured
           /\ result' = [call |-> "variable_scope", arg |-> new.name, status |-> "ok",
                         value |-> <<>>]
    /\ Advance("")
    /\ UNCHANGED <<var_store, session, init_ops, order_state, collection_state>>
    /\ UNCHANGED not_cells

\* scope.reuse_variables()
cell_reuse_variables ==
    /\ AtCell("reuse_variables")
    /\ captured # <<>>
    /\ captured' = <<[captured[1] EXCEPT !.reuse = TRUE]>>
    /\ vs_stack' = [i \in 1..Len(vs_stack) |->
                      IF vs_stack[i].cap THEN [vs_stack[i] EXCEPT !.reuse = TRUE]
                      ELSE vs_stack[i]]
    /\ result' = [call |-> "reuse_variables", arg |-> captured[1].name, status |-> "ok",
                  value |-> <<>>]
    /\ Advance("")
    /\ UNCHANGED <<var_store, session, init_ops, order_state, collection_state>>
    /\ UNCHANGED not_cells

\* Leaving a `with tf.variable_scope` block.
cell_scope_exit ==
    /\ AtCell("scope_exit")
    /\ Len(vs_stack) > 1
    /\ vs_stack' = SubSeq(vs_stack, 1, Len(vs_stack) - 1)
    /\ result' = [call |-> "variable_scope_exit", arg |-> "", status |-> "ok", value |-> <<>>]
    /\ Advance("")
    /\ UNCHANGED <<var_store, captured, session, init_ops, order_state, collection_state>>
    /\ UNCHANGED not_cells

InitNames ==
    /\ names_in_use = <<>>
    /\ op_names = <<>>
    /\ name_stack = ""
    /\ scope_saved = <<>>

InitSharing ==
    /\ var_store = <<>>
    /\ vs_stack = <<RootScope>>
    /\ captured = <<>>

InitSession ==
    /\ init_ops = <<>>
    /\ session = <<>>
    /\ assign_runs = 0

InitIterator ==
    /\ dataset = <<>>
    /\ iter_pos = 0
    /\ next_runs = 0
    /\ loop = "idle"
    /\ loop_from = 0
    /\ printed = <<>>

\* One graph, the global default graph, with nothing in it.
InitBinding ==
    /\ graphs = <<<<>>>>
    /\ default_stack = <<1>>
    /\ op_graph = <<>>
    /\ sess_graph = <<>>

InitOrder ==
    /\ pending = {}
    /\ staged = <<>>

InitCollection ==
    /\ collections = <<>>
    /\ added = <<>>

InitCells ==
    /\ cell_pc = 1
    /\ raised = ""

Init ==
    /\ InitNames
    /\ InitSharing
    /\ InitSession
    /\ InitIterator
    /\ InitBinding
    /\ InitOrder
    /\ InitCollection
    /\ InitCells
    /\ executed = [n \in Nodes |-> 0]
    /\ run_order = <<>>
    /\ result = NoResult

NextNames ==
    \/ \E name \in OpNames : create_op(name)
    \/ \E name \in ScopeNames : name_scope_enter(name)
    \/ name_scope_exit

SpecNames == Init /\ [][NextNames]_vars

NextSharing ==
    \/ call_conv_relu
    \/ call_my_image_filter
    \/ \E name \in ModelScopes, reuse \in BOOLEAN, as_scope \in BOOLEAN :
          variable_scope_enter(name, reuse, as_scope)
    \/ variable_scope_enter_captured
    \/ reuse_variables
    \/ variable_scope_exit

SpecSharing == Init /\ [][NextSharing]_vars

NextSession ==
    \/ \E name \in VarDecls : create_variable(name)
    \/ global_variables_initializer
    \/ \E i \in 1..MaxInitOps : run_init(i)
    \/ \E v \in 1..MaxVars : run_initializer(v)
    \/ run_assign_add
    \/ run_report_uninitialized

SpecSession == Init /\ [][NextSession]_vars

NextRun == \E fetches \in FetchLists, feed \in FeedDicts : run(fetches, feed)

SpecRun == Init /\ [][NextRun]_vars

NextIterator ==
    \/ \E data \in Datasets : make_one_shot_iterator(data)
    \/ run_next_item
    \/ loop_start
    \/ loop_step

\* The interpreter keeps executing a loop that it has started.
SpecIterator == Init /\ [][NextIterator]_vars /\ WF_vars(loop_step)

NextBinding ==
    \/ new_graph
    \/ \E g \in 1..MaxGraphs : as_default_enter(g)
    \/ as_default_exit
    \/ graph_constant
    \/ new_session
    \/ \E g \in 1..MaxGraphs : new_session_graph(g)

SpecBinding == Init /\ [][NextBinding]_vars

NextOrder ==
    \/ create_u
    \/ create_w
    \/ make_initializer
    \/ \E i \in 1..MaxInitOps : start_run_init(i)
    \/ \E v \in 1..MaxVars : start_run_initializer(v)
    \/ \E step \in StepsOf({"u", "w"}) : init_step(step)

SpecOrder == Init /\ [][NextOrder]_vars

NextCollection ==
    \/ \E name \in VarDecls : create_variable(name)
    \/ \E name \in CollectionNames, v \in 1..MaxVars : add_to_collection(name, v)
    \/ \E name \in CollectionNames : get_collection(name)

SpecCollection == Init /\ [][NextCollection]_vars

NextCells ==
    \/ cell_get_variable
    \/ cell_add_to_collection
    \/ cell_get_collection
    \/ cell_run_init
    \/ cell_run_initializer
    \/ \E step \in UNION {StepsOf({Cells[i].name}) : i \in 1..Len(Cells)} : cell_init_step(step)
    \/ cell_report_uninitialized
    \/ cell_run_assign_add
    \/ cell_conv_relu
    \/ cell_my_image_filter
    \/ cell_variable_scope
    \/ cell_reuse_variables
    \/ cell_scope_exit

SpecCells == Init /\ [][NextCells]_vars

\* The whole machine: any call of any part.  Each part is checked under its
\* own specification above.
Next ==
    \/ NextNames
    \/ NextSharing
    \/ NextSession
    \/ NextRun
    \/ NextIterator
    \/ NextBinding
    \/ NextOrder
    \/ NextCollection
    \/ NextCells

Spec == Init /\ [][Next]_vars

(***************************************************************************)
(* C1: no two operations of the graph have the same name, and an operation *)
(* created under a requested name that is already in use in the current    *)
(* name scope gets that name with "_k" appended, k the smallest suffix     *)
(* (from 1) whose name is unused; a name that is unused is given as asked. *)
(***************************************************************************)
NoDuplicateNames ==
    \A i, j \in 1..Len(op_names) : i # j => op_names[i] # op_names[j]

SmallestUnusedSuffix ==
    (Len(op_names') = Len(op_names) + 1) =>
        LET full == Prefixed(name_stack, result'.arg)
            new == op_names'[Len(op_names')]
        IN  IF ~InUse(names_in_use, full)
            THEN new = full
            ELSE \E k \in 1..(MaxNames + 1) :
                    /\ new = Suffixed(full, k)
                    /\ ~InUse(names_in_use, new)
                    /\ \A j \in 1..(k - 1) : InUse(names_in_use, Suffixed(full, j))

C1_UniqueOperationNames ==
    /\ []NoDuplicateNames
    /\ [][SmallestUnusedSuffix]_vars

\* The notebook's case: tf.constant(0, name="c") and tf.constant(2, name="c")
\* gave "c" and "c_1".
C1_Witness ==
    /\ op_names = <<"c", "c_1">>
    /\ result.call = "create_op" /\ result.arg = "c" /\ result.value = "c_1"

(***************************************************************************)
(* C5: a call that asks tf.get_variable for a name that already exists in  *)
(* the current variable scope, in a scope without reuse, raises; it        *)
(* returns no variable and leaves the set of existing variables as it was  *)
(* (conv_relu a second time in the same scope, and my_image_filter a       *)
(* second time in the same scope).                                         *)
(***************************************************************************)
FailsAndKeepsStore ==
    /\ result'.status = "ValueError"
    /\ result'.value = <<>>
    /\ var_store' = var_store

GetExistingWithoutReuseFails ==
    /\ (/\ result'.call = "conv_relu"
        /\ ~CurrentScope.reuse
        /\ Exists(var_store, FullName(CurrentScope, "weights")))
       => FailsAndKeepsStore
    /\ (/\ result'.call = "my_image_filter"
        /\ ~CurrentScope.reuse
        /\ Exists(var_store, FullName(CurrentScope, "conv1/weights")))
       => FailsAndKeepsStore

C5_GetVariableExistingFails == [][GetExistingWithoutReuseFails]_vars

\* conv_relu was called twice at top level: the first call made "weights" and
\* "biases", the second raised.
C5_Witness ==
    /\ result.call = "conv_relu"
    /\ result.arg = ""
    /\ result.status = "ValueError"
    /\ Len(var_store) = 2
    /\ var_store[1].name = "weights"

(***************************************************************************)
(* C6: my_image_filter called in a reusing variable scope in which its     *)
(* four variables exist creates no variable, and its four tf.get_variable  *)
(* calls return the variables the first call created, in the same order.   *)
(***************************************************************************)
FilterNames == <<"conv1/weights", "conv1/biases", "conv2/weights", "conv2/biases">>

SecondCallShares ==
    (/\ result'.call = "my_image_filter"
     /\ CurrentScope.reuse
     /\ \A k \in 1..4 : Exists(var_store, FullName(CurrentScope, FilterNames[k])))
    => /\ result'.status = "ok"
       /\ var_store' = var_store
       /\ result'.value =
            [k \in 1..4 |-> IndexOf(var_store, FullName(CurrentScope, FilterNames[k]))]

C6_ReuseSharesVariables == [][SecondCallShares]_vars

\* The last sharing cell: the scope object of "model" was captured, the scope
\* was opened again from the object, and the second call returned the four
\* variables of the first.
C6_Witness ==
    /\ result.call = "my_image_filter"
    /\ result.arg = "model"
    /\ result.status = "ok"
    /\ result.value = <<1, 2, 3, 4>>
    /\ Len(var_store) = 4
    /\ captured # <<>>
    /\ captured[1].name = "model"
    /\ ~captured[1].reuse
    /\ CurrentScope.reuse

(***************************************************************************)
(* C2: the value of b persists between runs: every successful run of       *)
(* b.assign_add(1) returns the number of such runs since b was last        *)
(* initialized (1 for the first, k for the k-th), and that value is the    *)
(* one the session holds for b afterwards.                                 *)
(***************************************************************************)
C2_AssignAddCounts ==
    (result.call = "run_assign_add" /\ result.status = "ok")
    => /\ assign_runs >= 1
       /\ result.value = Scalar(assign_runs)
       /\ session["b"] = result.value

\* The second consecutive run returned 2.
C2_Witness ==
    /\ result.call = "run_assign_add"
    /\ result.status = "ok"
    /\ assign_runs = 2
    /\ result.value = Scalar(2)

InitializesOnlyWhatExisted ==
    /\ result'.call = "run_init"
       => \A v \in 1..Len(var_store) :
             v > init_ops[result'.arg].made_after
             => /\ Initialized(session', var_store[v].name)
                   <=> Initialized(session, var_store[v].name)
                /\ Initialized(session, var_store[v].name)
                   => session'[var_store[v].name] = session[var_store[v].name]
    /\ \A v \in 1..Len(var_store) :
          (/\ ~Initialized(session, var_store[v].name)
           /\ Initialized(session', var_store[v].name))
          => \/ result'.call = "run_initializer" /\ result'.arg = v
             \/ result'.call = "run_init" /\ init_ops[result'.arg].made_after >= v

C4_InitializerCoversExistingOnly == [][InitializesOnlyWhatExisted]_vars

\* The first initializer was made, then b was created, a second initializer
\* was made, and the first has just run: b is still uninitialized.
C4_Witness ==
    /\ result.call = "run_init"
    /\ result.arg = 1
    /\ Len(init_ops) = 2
    /\ "b" \in init_ops[2].vars
    /\ init_ops[1].vars # {}
    /\ "b" \notin init_ops[1].vars
    /\ ~Initialized(session, "b")

(***************************************************************************)
(* What the claims about Session.run read from the last run.               *)
(***************************************************************************)
IsRun == result.call = "run"
Returned == IsRun /\ result.status = "ok"
Fetched == Range(result.arg.fetches)
Fed == DOMAIN result.arg.feed
ExecutedOps == {n \in Nodes : executed[n] > 0}
DataInputs(n) == Range(Graph[n].inputs)

(***************************************************************************)
(* C7 as stated, tensors that are fed set aside: a run that returns has    *)
(* executed every fetched operation and every operation whose output an    *)
(* executed operation takes as input, and no operation that is neither     *)
(* fetched nor gives its output to an executed operation.                  *)
(***************************************************************************)
C7_ExactlyDataSubgraph ==
    Returned =>
        /\ \A f \in Fetched \ Fed : f \in ExecutedOps
        /\ \A n \in ExecutedOps : \A m \in DataInputs(n) \ Fed : m \in ExecutedOps
        /\ \A n \in ExecutedOps :
              n \in Fetched \/ \E m \in ExecutedOps : n \in DataInputs(m)

(***************************************************************************)
(* C7 as amended: a run that returns has executed every fetched operation  *)
(* and every operation that an executed operation takes as a data input or *)
(* as a control dependency, unless its tensor is fed, and no operation     *)
(* that is neither fetched nor a data input or a control dependency of an  *)
(* executed operation; no operation whose tensor is fed is executed.       *)
(***************************************************************************)
C7_ExactlyFetchedSubgraph ==
    Returned =>
        /\ \A f \in Fetched \ Fed : f \in ExecutedOps
        /\ \A n \in ExecutedOps :
              \A m \in (DataInputs(n) \cup Graph[n].control) \ Fed : m \in ExecutedOps
        /\ \A n \in ExecutedOps :
              n \in Fetched
              \/ \E m \in ExecutedOps : n \in DataInputs(m) \cup Graph[m].control
        /\ ExecutedOps \cap Fed = {}

\* w = c.read_value() was fetched alone: the assign_add it was made under ran
\* too, and nothing else.
C7_Witness ==
    /\ Returned
    /\ result.arg.fetches = <<"w_read">>
    /\ ExecutedOps = {"assignment", "w_read"}

RECURSIVE DependsOn(_, _)
DependsOn(n, p) == n = p \/ \E m \in DataInputs(n) : DependsOn(m, p)

C9_UnfedPlaceholderRaises ==
    IsRun =>
        /\ ((\E f \in Fetched : DependsOn(f, "x")) /\ "x" \notin Fed)
           => /\ result.status = "InvalidArgumentError"
              /\ result.value = <<>>
        /\ (/\ result.arg.fetches = <<"y_sq">>
            /\ "x" \in Fed
            /\ result.arg.feed["x"].shape = <<3>>)
           => /\ result.status = "ok"
              /\ result.value[1].shape = <<3>>
              /\ \A i \in 1..3 :
                    result.value[1].data[i]
                    = result.arg.feed["x"].data[i] * result.arg.feed["x"].data[i]

\* sess.run(y) with nothing fed.
C9_Witness ==
    /\ IsRun
    /\ result.arg.fetches = <<"y_sq">>
    /\ result.arg.feed = <<>>
    /\ result.status = "InvalidArgumentError"

(***************************************************************************)
(* C10: a run that feeds the placeholder x a value whose shape is not the  *)
(* placeholder's shape [3] raises ValueError and returns nothing.          *)
(***************************************************************************)
C10_FeedShapeMismatchRaises ==
    (IsRun /\ "x" \in Fed /\ result.arg.feed["x"].shape # Graph["x"].shape)
    => /\ result.status = "ValueError"
       /\ result.value = <<>>

\* sess.run(y, {x: 37.0})
C10_Witness ==
    /\ IsRun
    /\ result.arg.fetches = <<"y_sq">>
    /\ "x" \in Fed
    /\ result.arg.feed["x"] = Tensor(<<>>, <<37>>)
    /\ result.status = "ValueError"

(***************************************************************************)
(* C11: the i-th run of next_item on a one-shot iterator over n rows       *)
(* returns row i for 1 <= i <= n and the (n+1)-th raises OutOfRangeError;  *)
(* the reading loop, once started, ends, and when it has ended it has      *)
(* printed the rows the iterator had left, in order: all n rows when the   *)
(* iterator was fresh.                                                     *)
(***************************************************************************)
NextItemReturnsRow ==
    (next_runs' = next_runs + 1) =>
        /\ next_runs' <= Len(dataset) =>
              /\ result'.status = "ok"
              /\ result'.value = dataset[next_runs']
        /\ next_runs' = Len(dataset) + 1 =>
              /\ result'.status = "OutOfRangeError"
              /\ result'.value = <<>>

LoopPrintedTheRows ==
    loop = "done" => printed = SubSeq(dataset, loop_from + 1, Len(dataset))

C11_OneShotIteratorLoop ==
    /\ [][NextItemReturnsRow]_vars
    /\ []LoopPrintedTheRows
    /\ (loop = "running") ~> (loop = "done")

\* The loop over my_data has ended on the fifth run and printed its four rows.
C11_Witness ==
    /\ dataset = my_data
    /\ loop = "done"
    /\ loop_from = 0
    /\ printed = <<<<0, 1>>, <<2, 3>>, <<4, 5>>, <<6, 7>>>>
    /\ next_runs = 5
    /\ result.status = "OutOfRangeError"


(***************************************************************************)
(* C12: an operation created inside `with g.as_default():` belongs to g    *)
(* and is added to no other graph; a session created inside the block is   *)
(* bound to g; a session created with graph=g is bound to g wherever it is *)
(* created; and every operation is held by the graph it names, and by no   *)
(* other.                                                                  *)
(***************************************************************************)
InnermostBlock == default_stack[Len(default_stack)]

OperationJoinsInnermost ==
    Len(op_graph') = Len(op_graph) + 1 =>
        LET new == Len(op_graph')
        IN  /\ op_graph'[new] = InnermostBlock
            /\ graphs'[InnermostBlock] = Append(graphs[InnermostBlock], new)
            /\ \A h \in 1..Len(graphs) : h # InnermostBlock => graphs'[h] = graphs[h]

SessionBound ==
    Len(sess_graph') = Len(sess_graph) + 1 =>
        /\ result'.arg = 0 => sess_graph'[Len(sess_graph')] = InnermostBlock
        /\ result'.arg # 0 => sess_graph'[Len(sess_graph')] = result'.arg

OperationsInTheirGraph ==
    \A i \in 1..Len(op_graph), g \in 1..Len(graphs) :
        (\E k \in 1..Len(graphs[g]) : graphs[g][k] = i) <=> op_graph[i] = g

C12_GraphBinding ==
    /\ [][OperationJoinsInnermost /\ SessionBound]_vars
    /\ []OperationsInTheirGraph

\* The end of the cell: c.graph is g_1, sess_1.graph is g_1, d.graph is g_2,
\* sess_2.graph is g_2, with the global default graph (graph 1) left empty.
C12_Witness ==
    /\ graphs = <<<<>>, <<1>>, <<2>>>>
    /\ op_graph = <<2, 3>>
    /\ sess_graph = <<2, 3>>
    /\ default_stack = <<1>>
    /\ result.call = "Session"
    /\ result.arg = 3


(***************************************************************************)
(* C13: in every Session.run that fetches w = c.read_value(), made under   *)
(* tf.control_dependencies([assignment]), and returns, the assign_add ran  *)
(* before the read in that run, and the value returned for w is the value  *)
(* c had before the run plus 1.                                            *)
(***************************************************************************)
Position(order, n) == CHOOSE i \in 1..Len(order) : order[i] = n

ReadFollowsAssignment ==
    (/\ result'.call = "run"
     /\ result'.status = "ok"
     /\ "w_read" \in Range(result'.arg.fetches)) =>
        /\ "assignment" \in Range(run_order')
        /\ "w_read" \in Range(run_order')
        /\ Position(run_order', "assignment") < Position(run_order', "w_read")
        /\ Initialized(session, "c")
        /\ \A i \in 1..Len(result'.arg.fetches) :
              result'.arg.fetches[i] = "w_read" =>
                  result'.value[i] = Scalar(session["c"].data[1] + 1)

C13_ReadAfterAssignment == [][ReadFollowsAssignment]_vars

\* A run that fetched w returned 2: c was 1 before it.
C13_Witness ==
    /\ result.call = "run"
    /\ result.status = "ok"
    /\ result.arg.fetches = <<"w_read">>
    /\ result.value = <<Scalar(2)>>
    /\ run_order = <<"assignment", "w_read">>


(***************************************************************************)
(* C14: whatever the order in which a run of initializers takes its steps, *)
(* no step reads an uninitialized variable (the run never raises and never *)
(* stops half-way), and when the run has ended with w among its variables, *)
(* w holds u's initial value plus 1, that is 1.                            *)
(***************************************************************************)
InitializationNeverRaises ==
    result.call = "run_init" => result.status \in {"ok", "running"}

InitializationGoesOn ==
    pending # {} => \E step \in pending : Ready(step, pending)

WEndsAsUPlusOne ==
    (result.call = "run_init" /\ result.status = "ok" /\ "w" \in result.arg) =>
        /\ pending = {}
        /\ Initialized(session, "w")
        /\ session["w"] = Scalar(InitialValue("u").data[1] + 1)
        /\ session["w"] = Scalar(1)

C14_InitializedValueAnyOrder ==
    /\ InitializationNeverRaises
    /\ InitializationGoesOn
    /\ WEndsAsUPlusOne

\* A run of the global initializer has initialized w, to 1, while u is
\* still uninitialized: w's steps came before u's.
C14_Witness ==
    /\ result.call = "run_init"
    /\ result.arg = {"u", "w"}
    /\ pending = {<<"init", "u">>}
    /\ ~Initialized(session, "u")
    /\ Initialized(session, "w")
    /\ session["w"] = Scalar(1)


(***************************************************************************)
(* C15: name scopes nest like paths and are restored on exit: while name   *)
(* scopes s1, ..., sk are open the prefix is "s1/.../sk", each si the      *)
(* (uniquified) name of a scope opened inside s1/.../s(i-1); a new         *)
(* operation is named by that prefix, "/", and its own (uniquified) name;  *)
(* entering a block saves the prefix in force, nothing inside the block    *)
(* changes what was saved, and leaving the block puts it back.             *)
(***************************************************************************)
Under(prefix, leaf) == IF prefix = "" THEN leaf ELSE prefix \o "/" \o leaf

Leaves(name) == {name} \cup {Suffixed(name, k) : k \in 1..(MaxNames + 1)}

PrefixIsPath ==
    /\ scope_saved = <<>> => name_stack = ""
    /\ scope_saved # <<>> => scope_saved[1] = ""
    /\ \A i \in 1..Len(scope_saved) :
          LET inside == IF i = Len(scope_saved) THEN name_stack ELSE scope_saved[i + 1]
          IN  \E s \in ScopeNames : \E leaf \in Leaves(s) : inside = Under(scope_saved[i], leaf)

OperationGetsPrefix ==
    Len(op_names') = Len(op_names) + 1 =>
        /\ \E leaf \in Leaves(result'.arg) : op_names'[Len(op_names')] = Under(name_stack, leaf)
        /\ name_stack' = name_stack
        /\ scope_saved' = scope_saved

BlockRestoresPrefix ==
    /\ Len(scope_saved') = Len(scope_saved) + 1 => scope_saved' = Append(scope_saved, name_stack)
    /\ Len(scope_saved') = Len(scope_saved) - 1 =>
          /\ name_stack' = scope_saved[Len(scope_saved)]
          /\ scope_saved' = SubSeq(scope_saved, 1, Len(scope_saved) - 1)

C15_NameScopesNest ==
    /\ []PrefixIsPath
    /\ [][OperationGetsPrefix /\ BlockRestoresPrefix]_vars

\* The cell's c_2, c_3, c_4: after leaving "inner" inside "outer" the new
\* operation is "outer/c_1".
C15_Witness ==
    /\ op_names = <<"outer/c", "outer/inner/c", "outer/c_1">>
    /\ name_stack = "outer"
    /\ scope_saved = <<"">>
    /\ result.call = "create_op"

(***************************************************************************)
(* C16: entering a name scope whose name is already in use in the current  *)
(* context opens a scope of that name with a suffix "_k" appended, a name  *)
(* not in use before; an operation created under a name not yet used in    *)
(* its scope keeps its own name without a suffix, whatever operations of   *)
(* that name exist in other scopes.                                        *)
(***************************************************************************)
ReenteredScopeIsUniquified ==
    Len(scope_saved') = Len(scope_saved) + 1 =>
        LET full == Under(name_stack, result'.arg)
        IN  IF InUse(names_in_use, full)
            THEN /\ name_stack' # full
                 /\ ~InUse(names_in_use, name_stack')
                 /\ \E k \in 1..(MaxNames + 1) : name_stack' = Suffixed(full, k)
            ELSE name_stack' = full

OperationKeepsItsName ==
    Len(op_names') = Len(op_names) + 1 =>
        LET full == Under(name_stack, result'.arg)
        IN  ~InUse(names_in_use, full) => op_names'[Len(op_names')] = full

C16_ScopeIsUniquified == [][ReenteredScopeIsUniquified /\ OperationKeepsItsName]_vars

\* The cell's c_5: "inner" entered a second time inside "outer" is
\* "outer/inner_1", and its c is "outer/inner_1/c" beside "outer/inner/c".
C16_Witness ==
    /\ op_names = <<"outer/inner/c", "outer/inner_1/c">>
    /\ name_stack = "outer/inner_1"
    /\ scope_saved = <<"", "outer">>
    /\ result.value = "outer/inner_1/c"


(***************************************************************************)
(* C17: tf.add_to_collection(name, obj) succeeds also for a name never     *)
(* used before, appends obj to the collection of that name and changes no  *)
(* other collection (the variables' own collections included);             *)
(* tf.get_collection(name) returns exactly the objects that were added     *)
(* under that name, in the order they were added.                          *)
(***************************************************************************)
RECURSIVE AddedUnder(_, _)
AddedUnder(log, name) ==
    IF log = <<>> THEN <<>>
    ELSE IF log[1][1] = name
         THEN <<log[1][2]>> \o AddedUnder(Tail(log), name)
         ELSE AddedUnder(Tail(log), name)

ListOf(colls, name) == IF name \in DOMAIN colls THEN colls[name] ELSE <<>>

AddChangesOneCollection ==
    Len(added') = Len(added) + 1 =>
        LET name == added'[Len(added')][1]
            obj == added'[Len(added')][2]
        IN  /\ result'.call = "add_to_collection"
            /\ result'.status = "ok"
            /\ ListOf(collections', name) = Append(ListOf(collections, name), obj)
            /\ \A n \in (CollectionNames \cup DOMAIN collections) \ {name} :
                  ListOf(collections', n) = ListOf(collections, n)
            /\ var_store' = var_store

GetReturnsWhatWasAdded ==
    result.call = "get_collection" =>
        /\ result.status = "ok"
        /\ result.value = AddedUnder(added, result.arg)

C17_UserCollections ==
    /\ [][AddChangesOneCollection]_vars
    /\ []GetReturnsWhatWasAdded

\* The cells: my_local, made in LOCAL_VARIABLES, was added to
\* "my_collection_name", never used before, and get_collection returns it.
C17_Witness ==
    /\ result.call = "get_collection"
    /\ result.arg = "my_collection_name"
    /\ result.value = <<"my_local">>
    /\ added = <<<<"my_collection_name", "my_local">>>>
    /\ \E i \in 1..Len(var_store) :
          var_store[i].name = "my_local" /\ var_store[i].collections = {LOCAL_VARIABLES}


(***************************************************************************)
(* C18: when the code cells of Variable.ipynb are executed once each, in   *)
(* document order, every tf.get_variable call succeeds: no statement is    *)
(* reached that asks, in a scope without reuse, for a variable name that   *)
(* exists, or, in a scope with reuse, for one that does not, and no        *)
(* statement raises.                                                       *)
(***************************************************************************)
\* The names the statement that is executed next asks tf.get_variable for.
NamesAsked ==
    IF raised # "" \/ pending # {} \/ cell_pc \notin 1..Len(Cells) THEN {}
    ELSE CASE Cells[cell_pc].op = "get_variable" ->
                 {FullName(CurrentScope, Cells[cell_pc].name)}
           [] Cells[cell_pc].op = "conv_relu" ->
                 {FullName(CurrentScope, n) : n \in {"weights", "biases"}}
           [] Cells[cell_pc].op = "my_image_filter" ->
                 {FullName(CurrentScope, s \o "/" \o n) :
                     s \in {"conv1", "conv2"}, n \in {"weights", "biases"}}
           [] OTHER -> {}

C18_EveryGetVariableSucceeds ==
    /\ raised = ""
    /\ \A full \in NamesAsked : Exists(var_store, full) <=> CurrentScope.reuse

\* The last cell: my_image_filter in `with tf.variable_scope("model") as
\* scope`, opened without reuse, raised ValueError; the twenty variables of
\* the cells before it exist, "model/conv1/weights" among them.
C18_Witness ==
    /\ raised = "ValueError"
    /\ cell_pc = 31
    /\ result.call = "my_image_filter"
    /\ result.status = "ValueError"
    /\ Len(var_store) = 20
    /\ Exists(var_store, "model/conv1/weights")
    /\ captured = <<[name |-> "model", reuse |-> FALSE, depth |-> 1]>>

====
